---- MODULE Spec2Model ----
(***************************************************************************)
(* Download job orchestration of JfkDocumentScraper: the Downloader        *)
(* singleton (src/server/downloader.ts), the MemStorage records it updates *)
(* (src/server/storage.ts) and the routes that drive it                    *)
(* (src/server/routes.ts).                                                 *)
(*                                                                         *)
(* Every handler is an async function.  A step of the model is one         *)
(* synchronous segment of a handler: the code between two awaits.  A call  *)
(* of a MemStorage method does its read or write at the call, and the      *)
(* await that follows it is where other handlers may run.  An await that   *)
(* is preceded only by reads of immutable data (a job's name, a file's     *)
(* name) is a pure delay and is folded into the segment that follows it.   *)
(***************************************************************************)
EXTENDS Naturals, Sequences, FiniteSets, Bags, TLC

\* ---------------------------------------------------------------- bounds
MaxJobs    == 1   \* jobs created by POST /api/downloads
MaxEntries == 4   \* queue entries pushed by all downloadBatch calls together
MaxRetries == 1   \* POST /api/downloads/retry/:id requests
MaxCancels == 1   \* DELETE /api/downloads/:id requests
MaxReturns == 2   \* fetch calls that return at all (the code sets no timeout)

\* SpecDrain: two jobs that fill the queue, and a cancellation.
DrainJobs    == 2
DrainEntries == 4
DrainCancels == 1
DrainReturns == 3

\* SpecSplit: one selection split into jobs of pdfsPerZip files.
SplitJobs    == 2
SplitEntries == 2
SplitReturns == 2

\* SpecSeries: the organized download and the series zips.
SeriesJobs      == 3
SeriesEntries   == 4
SeriesReturns   == 2
SeriesOrganized == 1   \* POST /api/downloads/organized requests
SeriesZips      == 1   \* POST /api/downloads/create-series-zips requests

\* SpecRetry: one job that may be cancelled and is then retried.
RetryJobs    == 1
RetryEntries == 4
RetryRetries == 1
RetryCancels == 1
RetryReturns == 2

\* SpecSeriesRetry: the organized download and a retry of one of its jobs.
SeriesRetryJobs    == 3
SeriesRetryEntries == 4
SeriesRetryRetries == 1
SeriesRetryReturns == 1
SeriesRetryOrganized == 1

\* SpecSettings: two jobs and an update of the settings.
SettingsJobs    == 2
SettingsEntries == 3
SettingsReturns == 1
SettingsUpdates == 1   \* POST /api/settings requests

\* SpecStaged: two jobs for the same file, and the clock.
StagedJobs    == 2
StagedEntries == 2
StagedReturns == 2
StagedClock   == 1   \* milliseconds that pass

\* SpecOverlap: two jobs that share a file.
OverlapJobs    == 2
OverlapEntries == 3
OverlapReturns == 2

\* ------------------------------------------------------ program constants
maxConcurrentDownloads == 3

\* --------------------------------------------------------------- catalogue
\* The PdfFile records present after a scan, in id order.  A filename is the
\* sequence of its characters (the extension is kept as one token).
FileNames ==
  << <<"1", "0", "4", "-", "1", ".pdf">>,
     <<"1", "0", "4", "-", "2", ".pdf">>,
     <<"1", "0", "5", "-", "1", ".pdf">>,
     <<"d", "o", "c", ".pdf">> >>

Files == DOMAIN FileNames

Digits == <<"0", "1", "2", "3", "4", "5", "6", "7", "8", "9">>

IsDigit(c) == \E i \in DOMAIN Digits : Digits[i] = c

DigitVal(c) == (CHOOSE i \in DOMAIN Digits : Digits[i] = c) - 1

\* parseInt(s, 10) of a string of digits.
RECURSIVE parseInt(_)
parseInt(s) ==
  IF s = <<>> THEN 0
  ELSE parseInt(SubSeq(s, 1, Len(s) - 1)) * 10 + DigitVal(s[Len(s)])

\* s.match(/(\d+)/): the first maximal run of digits, <<>> when there is none.
FirstDigits(s) ==
  IF \A i \in DOMAIN s : ~IsDigit(s[i]) THEN <<>>
  ELSE LET a == CHOOSE i \in DOMAIN s :
                  IsDigit(s[i]) /\ \A k \in 1..(i - 1) : ~IsDigit(s[k])
           b == CHOOSE i \in a..Len(s) :
                  /\ \A k \in a..i : IsDigit(s[k])
                  /\ (i = Len(s) \/ ~IsDigit(s[i + 1]))
       IN SubSeq(s, a, b)

\* A job name.  The routes build two shapes: `JFK Records ${first}-${last}`,
\* where first and last are digit strings or "unknown" (modelled as <<>>), and
\* `JFK Records Series ${series}`.
RangeName(first, last) == [series |-> FALSE, first |-> first, last |-> last]

\* job.name.match(/(\d+)-(\d+)/) on a name of the first shape matches exactly
\* when both numbers are present; on a name of the second shape it never does.
RangeMatch(name) == ~name.series /\ name.first # <<>> /\ name.last # <<>>

\* The filter of the retry route: the files whose first number lies in the range
\* encoded in the job name.
RetryFiles(name) ==
  {f \in Files :
     /\ RangeMatch(name)
     /\ FirstDigits(FileNames[f]) # <<>>
     /\ parseInt(FirstDigits(FileNames[f])) >= parseInt(name.first)
     /\ parseInt(FirstDigits(FileNames[f])) <= parseInt(name.last)}

\* Array order of storage.getPdfFiles(): Map insertion order, ascending id.
RECURSIVE InIdOrder(_)
InIdOrder(S) ==
  IF S = {} THEN <<>>
  ELSE LET m == CHOOSE x \in S : \A y \in S : x <= y
       IN <<m>> \o InIdOrder(S \ {m})


\* s.match(/^(\d{3})/): the three leading characters when all are digits.
SeriesPrefix(s) ==
  IF Len(s) >= 3 /\ \A i \in 1..3 : IsDigit(s[i]) THEN SubSeq(s, 1, 3) ELSE <<>>

\* A grouping key without the default.
SeriesKey_NoDefault(s) == SeriesPrefix(s)

\* The grouping key of both series routes: match ? match[1] : "000".
SeriesKey(s) == IF SeriesPrefix(s) = <<>> THEN <<"0", "0", "0">> ELSE SeriesPrefix(s)

\* The seriesGroups Map of both series routes, built from the files fs in
\* order: one group per key, in the order in which the keys first appear.
RECURSIVE SeriesGroups(_)
SeriesGroups(fs) ==
  IF fs = <<>> THEN <<>>
  ELSE LET key == SeriesKey(FileNames[Head(fs)])
           same == SelectSeq(fs, LAMBDA f : SeriesKey(FileNames[f]) = key)
           others == SelectSeq(fs, LAMBDA f : SeriesKey(FileNames[f]) # key)
       IN <<[series |-> key, files |-> same]>> \o SeriesGroups(others)

SeriesName(series) == [series |-> TRUE, first |-> series, last |-> <<>>]

\* The jobFiles filter of completeJob: a name holding "Series <digits>" selects
\* the files with that three-digit prefix, a name holding a range selects the
\* files whose first number lies in it, any other name selects nothing.
JobFiles(name) ==
  IF name.series
  THEN {f \in Files : SeriesPrefix(FileNames[f]) # <<>>
                      /\ SeriesPrefix(FileNames[f]) = name.first}
  ELSE RetryFiles(name)

\* The batches of POST /api/downloads: slices of pdfsPerZip files.
RECURSIVE Batches(_, _)
Batches(fs, k) ==
  IF fs = <<>> THEN <<>>
  ELSE IF Len(fs) <= k THEN <<fs>>
  ELSE <<SubSeq(fs, 1, k)>> \o Batches(SubSeq(fs, k + 1, Len(fs)), k)

BatchName(batch) ==
  RangeName(FirstDigits(FileNames[batch[1]]), FirstDigits(FileNames[batch[Len(batch)]]))

\* ------------------------------------------------------------------ state
VARIABLES
  pdfFiles,            \* MemStorage.pdfFiles: id -> [status, progress]
  downloadJobs,        \* MemStorage.downloadJobs: id -> job record
  completedDownloads,  \* MemStorage.completedDownloads, in creation order
  historyEntries,      \* MemStorage.historyEntries, as a bag of [action, job]
  queue,               \* Downloader.queue
  activeDownloads,     \* keys of Downloader.activeDownloads (file ids)
  cancelledJobs,       \* Downloader.cancelledJobs
  settingsData,        \* MemStorage.settingsData: [maxConcurrentDownloads]
  tempDir,             \* the non-empty staged files in temp/, as [stamp, file]
  now,                 \* Date.now()
  tasks,               \* running downloadFile calls: task id -> position
  procs,               \* running route handlers and downloadBatch calls
  fetchLog,            \* per job: downloadBatch calls, fetches started, fetches succeeded
  counters             \* ids handed out and requests made so far

vars == <<pdfFiles, downloadJobs, completedDownloads, historyEntries, queue,
          activeDownloads, cancelledJobs, settingsData, tempDir, now, tasks, procs,
          fetchLog, counters>>

Terminal == {"completed", "failed", "cancelled"}

NoSnap == [downloadedFiles |-> 0, totalFiles |-> 0]

NewTask(e) ==
  [jobId |-> e.jobId, file |-> e.file, pc |-> "started",
   stamp |-> 0, job |-> NoSnap, completed |-> {}, tempFiles |-> <<>>]

NewProc(kind, jobId, files, batches) ==
  [kind |-> kind, jobId |-> jobId, files |-> files, idx |-> 0, batches |-> batches]

Drop(f, k) == [x \in DOMAIN f \ {k} |-> f[x]]

\* A history entry: its action and what its details say (a job, an error).
AddHistory(h, action, details) ==
  h (+) SetToBag({[action |-> action, details |-> details]})

\* The requests and fetch returns a run may see.
Limits ==
  [jobs |-> MaxJobs, entries |-> MaxEntries, retries |-> MaxRetries,
   cancels |-> MaxCancels, returns |-> MaxReturns, organized |-> 0, zips |-> 0, settings |-> 0, clock |-> 0]

LimitsDrain ==
  [jobs |-> DrainJobs, entries |-> DrainEntries, retries |-> 0,
   cancels |-> DrainCancels, returns |-> DrainReturns, organized |-> 0, zips |-> 0, settings |-> 0, clock |-> 0]

LimitsSplit ==
  [jobs |-> SplitJobs, entries |-> SplitEntries, retries |-> 0,
   cancels |-> 0, returns |-> SplitReturns, organized |-> 0, zips |-> 0, settings |-> 0, clock |-> 0]

LimitsSeries ==
  [jobs |-> SeriesJobs, entries |-> SeriesEntries, retries |-> 0,
   cancels |-> 0, returns |-> SeriesReturns,
   organized |-> SeriesOrganized, zips |-> SeriesZips,
   settings |-> 0, clock |-> 0]

LimitsRetry ==
  [jobs |-> RetryJobs, entries |-> RetryEntries, retries |-> RetryRetries,
   cancels |-> RetryCancels, returns |-> RetryReturns, organized |-> 0, zips |-> 0, settings |-> 0, clock |-> 0]

LimitsSeriesRetry ==
  [jobs |-> SeriesRetryJobs, entries |-> SeriesRetryEntries,
   retries |-> SeriesRetryRetries, cancels |-> 0, returns |-> SeriesRetryReturns,
   organized |-> SeriesRetryOrganized, zips |-> 0, settings |-> 0, clock |-> 0]

LimitsSettings ==
  [jobs |-> SettingsJobs, entries |-> SettingsEntries, retries |-> 0, cancels |-> 0,
   returns |-> SettingsReturns, organized |-> 0, zips |-> 0,
   settings |-> SettingsUpdates, clock |-> 0]

LimitsStaged ==
  [jobs |-> StagedJobs, entries |-> StagedEntries, retries |-> 0, cancels |-> 0,
   returns |-> StagedReturns, organized |-> 0, zips |-> 0, settings |-> 0,
   clock |-> StagedClock]

LimitsOverlap ==
  [jobs |-> OverlapJobs, entries |-> OverlapEntries, retries |-> 0, cancels |-> 0,
   returns |-> OverlapReturns, organized |-> 0, zips |-> 0, settings |-> 0,
   clock |-> 0]

\* The server after start-up and a scan: every file ready, nothing queued.
Started(limit) ==
  /\ pdfFiles = [f \in Files |-> [status |-> "ready", progress |-> 0]]
  /\ downloadJobs = <<>>
  /\ completedDownloads = <<>>
  /\ historyEntries = EmptyBag
  /\ queue = <<>>
  /\ activeDownloads = {}
  /\ cancelledJobs = {}
  /\ settingsData = [maxConcurrentDownloads |-> 3]
  /\ tempDir = {}
  /\ now = 0
  /\ tasks = <<>>
  /\ procs = <<>>
  /\ fetchLog = <<>>
  /\ counters = [task |-> 1, proc |-> 1, entries |-> 0, retries |-> 0, cancels |-> 0,
                 returns |-> 0, organized |-> 0, zips |-> 0, settings |-> 0,
                 limit |-> limit]

Init == Started(Limits)

\* ------------------------------------------------------------ processQueue
\* The part of the state processQueue and downloadFile work on.
Downloader ==
  [queue |-> queue, active |-> activeDownloads, cancelled |-> cancelledJobs,
   pdfFiles |-> pdfFiles, tasks |-> tasks, next |-> counters.task, log |-> fetchLog]

Install(d) ==
  /\ queue' = d.queue
  /\ activeDownloads' = d.active
  /\ pdfFiles' = d.pdfFiles
  /\ tasks' = d.tasks
  /\ fetchLog' = d.log

\* downloadFile up to its first await: the file is marked downloading and the
\* call is suspended; activeDownloads is not touched yet.
downloadFile(d, e) ==
  [d EXCEPT !.pdfFiles[e.file] = [status |-> "downloading", progress |-> 0],
            !.tasks = d.next :> NewTask(e) @@ d.tasks,
            !.next = d.next + 1,
            !.log[e.jobId].started = @ + 1]

\* The loop condition of processQueue.
CanAdmit(d) == Cardinality(d.active) < maxConcurrentDownloads /\ d.queue # <<>>

\* processQueue without its cancellation check.
IsCancelled_Never(d, e) == FALSE

\* The cancellation check of processQueue, made when an entry is dequeued.
IsCancelled(d, e) == e.jobId \in d.cancelled

\* A queue served from its tail.
shift_Last(q) == [item |-> q[Len(q)], rest |-> SubSeq(q, 1, Len(q) - 1)]

\* this.queue.shift(): the first entry is removed and returned.
shift(q) == [item |-> Head(q), rest |-> Tail(q)]

RECURSIVE processQueue(_)
processQueue(d) ==
  IF CanAdmit(d)
  THEN LET e == shift(d.queue).item
           rest == [d EXCEPT !.queue = shift(d.queue).rest]
       IN IF IsCancelled(d, e)
          THEN processQueue([rest EXCEPT !.log[e.jobId].discarded = @ + 1])
          ELSE processQueue(downloadFile(rest, e))
  ELSE d


\* ------------------------------------------------------------------ routes
NewJob(name, total) ==
  [name |-> name, totalFiles |-> total, downloadedFiles |-> 0,
   status |-> "queued", completedAt |-> FALSE]

\* What has happened for a job so far: the pdfsPerZip of the request that
\* created it (0 for a series job), downloadBatch calls and the files handed to
\* them, fetches started, fetches whose body was read, and queue entries
\* discarded by processQueue.
NoLog ==
  [pdfsPerZip |-> 0, batches |-> 0, submitted |-> {}, started |-> 0, succeeded |-> 0,
   discarded |-> 0]

\* downloadBatch is called for the job with the files.
Submitted(log, jobId, files) ==
  [log EXCEPT ![jobId].batches = @ + 1,
              ![jobId].submitted = @ \cup {files[i] : i \in DOMAIN files}]

LogFor(k) == [NoLog EXCEPT !.pdfsPerZip = k]

\* The selections and zip sizes a client sends to POST /api/downloads: some ids,
\* or nothing, which selects every file.
Selections == {{1}, {3}, {4}, {1, 2}, Files}

ZipSizes == {1, 100}

\* POST /api/downloads up to the await of the first createDownloadJob.
StartDownload(sel, k) ==
  LET batches == Batches(InIdOrder(sel), k)
      id == Len(downloadJobs) + 1
  IN /\ Len(downloadJobs) + Len(batches) <= counters.limit.jobs
     /\ counters.entries + Cardinality(sel) <= counters.limit.entries
     /\ downloadJobs' = Append(downloadJobs, NewJob(BatchName(batches[1]), Len(batches[1])))
     /\ fetchLog' = Append(fetchLog, LogFor(k))
     /\ procs' = counters.proc :> NewProc("download", id, <<>>, batches) @@ procs
     /\ counters' = [counters EXCEPT !.proc = @ + 1,
                                     !.entries = @ + Cardinality(sel)]
     /\ UNCHANGED <<pdfFiles, completedDownloads, historyEntries, queue,
                    activeDownloads, cancelledJobs, settingsData, tempDir, now, tasks>>

\* A downloadBatch that leaves the job record as it is.
BeginBatch_KeepStatus(jobs, jobId) == jobs

\* downloadBatch up to its first await: the job is set to "in progress".
BeginBatch(jobs, jobId) == [jobs EXCEPT ![jobId].status = "in progress"]

\* POST /api/downloads after a createDownloadJob: downloadBatch is called for
\* the job (and runs to its first await), then the next job is created or, after
\* the last batch, the history entry is written.
DownloadRoute(p) ==
  LET r == procs[p]
      batch == Head(r.batches)
      more == Tail(r.batches)
      started == BeginBatch(downloadJobs, r.jobId)
      b == counters.proc
      id == Len(downloadJobs) + 1
  IN /\ r.kind = "download"
     /\ fetchLog' = IF more = <<>>
                    THEN Submitted(fetchLog, r.jobId, batch)
                    ELSE Append(Submitted(fetchLog, r.jobId, batch),
                                LogFor(fetchLog[r.jobId].pdfsPerZip))
     /\ counters' = [counters EXCEPT !.proc = @ + 1]
     /\ IF more = <<>>
        THEN /\ downloadJobs' = started
             /\ procs' = b :> NewProc("batch", r.jobId, batch, <<>>) @@ Drop(procs, p)
             /\ historyEntries' = AddHistory(historyEntries, "Download initiated", <<>>)
        ELSE /\ downloadJobs' = Append(started, NewJob(BatchName(more[1]), Len(more[1])))
             /\ procs' = b :> NewProc("batch", r.jobId, batch, <<>>)
                         @@ [procs EXCEPT ![p].jobId = id, ![p].batches = more]
             /\ UNCHANGED historyEntries
     /\ UNCHANGED <<pdfFiles, completedDownloads, queue, activeDownloads,
                    cancelledJobs, settingsData, tempDir, now, tasks>>

\* POST /api/downloads/organized up to the await of the first
\* createDownloadJob: every file is grouped by its series key and the job of
\* the first group is created.
StartOrganized ==
  LET groups == SeriesGroups(InIdOrder(Files))
      id == Len(downloadJobs) + 1
  IN /\ counters.organized < counters.limit.organized
     /\ Len(downloadJobs) + Len(groups) <= counters.limit.jobs
     /\ counters.entries + Cardinality(Files) <= counters.limit.entries
     /\ downloadJobs' = Append(downloadJobs, NewJob(SeriesName(groups[1].series),
                                                    Len(groups[1].files)))
     /\ fetchLog' = Append(fetchLog, NoLog)
     /\ procs' = counters.proc :> NewProc("organized", id, <<>>, groups) @@ procs
     /\ counters' = [counters EXCEPT !.proc = @ + 1, !.organized = @ + 1,
                                     !.entries = @ + Cardinality(Files)]
     /\ UNCHANGED <<pdfFiles, completedDownloads, historyEntries, queue,
                    activeDownloads, cancelledJobs, settingsData, tempDir, now, tasks>>

\* POST /api/downloads/organized after a createDownloadJob: downloadBatch is
\* called for the group's job (and runs to its first await), then the job of the
\* next group is created or, after the last group, the history entry is written.
OrganizedRoute(p) ==
  LET r == procs[p]
      group == Head(r.batches)
      more == Tail(r.batches)
      started == BeginBatch(downloadJobs, r.jobId)
      b == counters.proc
      id == Len(downloadJobs) + 1
  IN /\ r.kind = "organized"
     /\ fetchLog' = IF more = <<>>
                    THEN Submitted(fetchLog, r.jobId, group.files)
                    ELSE Append(Submitted(fetchLog, r.jobId, group.files), NoLog)
     /\ counters' = [counters EXCEPT !.proc = @ + 1]
     /\ IF more = <<>>
        THEN /\ downloadJobs' = started
             /\ procs' = b :> NewProc("batch", r.jobId, group.files, <<>>) @@ Drop(procs, p)
             /\ historyEntries' =
                  AddHistory(historyEntries, "Organized download initiated", <<>>)
        ELSE /\ downloadJobs' = Append(started, NewJob(SeriesName(more[1].series),
                                                       Len(more[1].files)))
             /\ procs' = b :> NewProc("batch", r.jobId, group.files, <<>>)
                         @@ [procs EXCEPT ![p].jobId = id, ![p].batches = more]
             /\ UNCHANGED historyEntries
     /\ UNCHANGED <<pdfFiles, completedDownloads, queue, activeDownloads,
                    cancelledJobs, settingsData, tempDir, now, tasks>>

\* downloadBatch after an await: the file marked queued before the await is
\* pushed, then the next file is marked queued, or, after the last file,
\* processQueue runs.
BatchStep(p) ==
  LET r == procs[p]
      pushed == IF r.idx = 0 THEN queue
                ELSE Append(queue, [jobId |-> r.jobId, file |-> r.files[r.idx]])
  IN /\ r.kind = "batch"
     /\ IF r.idx < Len(r.files)
        THEN /\ queue' = pushed
             /\ pdfFiles' = [pdfFiles EXCEPT ![r.files[r.idx + 1]].status = "queued"]
             /\ procs' = [procs EXCEPT ![p].idx = r.idx + 1]
             /\ UNCHANGED <<activeDownloads, tasks, fetchLog, counters>>
        ELSE LET d == processQueue([Downloader EXCEPT !.queue = pushed])
             IN /\ Install(d)
                /\ counters' = [counters EXCEPT !.task = d.next]
                /\ procs' = Drop(procs, p)
     /\ UNCHANGED <<downloadJobs, completedDownloads, historyEntries,
                    cancelledJobs, settingsData, tempDir, now>>

\* POST /api/downloads/retry/:id up to the await of updateDownloadJob: the job
\* is reset to "queued" with no downloaded files.
Retry(j) ==
  /\ j \in DOMAIN downloadJobs
  /\ counters.retries < counters.limit.retries
  /\ counters.entries + Cardinality(RetryFiles(downloadJobs[j].name)) <= counters.limit.entries
  /\ downloadJobs' = [downloadJobs EXCEPT ![j].status = "queued",
                                          ![j].downloadedFiles = 0]
  /\ procs' = counters.proc :> NewProc("retry", j, <<>>, <<>>) @@ procs
  /\ counters' = [counters EXCEPT
                    !.proc = @ + 1, !.retries = @ + 1,
                    !.entries = @ + Cardinality(RetryFiles(downloadJobs[j].name))]
  /\ UNCHANGED <<pdfFiles, completedDownloads, historyEntries, queue,
                 activeDownloads, cancelledJobs, settingsData, tempDir, now, tasks, fetchLog>>

\* The retry route after its awaits: the files are selected by the job's name,
\* downloadBatch is called (and runs to its first await) and the history entry
\* is written.
RetryRoute(p) ==
  LET r == procs[p]
      files == InIdOrder(RetryFiles(downloadJobs[r.jobId].name))
  IN /\ r.kind = "retry"
     /\ downloadJobs' = BeginBatch(downloadJobs, r.jobId)
     /\ fetchLog' = Submitted(fetchLog, r.jobId, files)
     /\ procs' = counters.proc :> NewProc("batch", r.jobId, files, <<>>) @@ Drop(procs, p)
     /\ counters' = [counters EXCEPT !.proc = @ + 1]
     /\ historyEntries' = AddHistory(historyEntries, "Download restarted", <<r.jobId>>)
     /\ UNCHANGED <<pdfFiles, completedDownloads, queue, activeDownloads,
                    cancelledJobs, settingsData, tempDir, now, tasks>>

\* cancelDownload up to its await, as called by DELETE /api/downloads/:id.
cancelDownload(j) ==
  /\ j \in DOMAIN downloadJobs
  /\ counters.cancels < counters.limit.cancels
  /\ cancelledJobs' = cancelledJobs \cup {j}
  /\ queue' = SelectSeq(queue, LAMBDA item : item.jobId # j)
  /\ downloadJobs' = [downloadJobs EXCEPT ![j].status = "cancelled",
                                          ![j].completedAt = TRUE]
  /\ procs' = counters.proc :> NewProc("cancel", j, <<>>, <<>>) @@ procs
  /\ counters' = [counters EXCEPT !.proc = @ + 1, !.cancels = @ + 1]
  /\ UNCHANGED <<pdfFiles, completedDownloads, historyEntries, activeDownloads,
                 settingsData, tempDir, now, tasks, fetchLog>>

\* DELETE /api/downloads/:id after cancelDownload returned: the status is
\* written once more; after the next await the history entry is written.
CancelRoute(p) ==
  LET r == procs[p]
  IN /\ r.kind = "cancel"
     /\ IF r.idx = 0
        THEN /\ downloadJobs' = [downloadJobs EXCEPT ![r.jobId].status = "cancelled"]
             /\ procs' = [procs EXCEPT ![p].idx = 1]
             /\ UNCHANGED historyEntries
        ELSE /\ historyEntries' = AddHistory(historyEntries, "Download cancelled", <<r.jobId>>)
             /\ procs' = Drop(procs, p)
             /\ UNCHANGED downloadJobs
     /\ UNCHANGED <<pdfFiles, completedDownloads, queue, activeDownloads,
                    cancelledJobs, settingsData, tempDir, now, tasks, fetchLog, counters>>

\* String(n) of a number: its decimal digits.
RECURSIVE ToDigits(_)
ToDigits(n) ==
  IF n < 10 THEN <<Digits[n + 1]>> ELSE ToDigits(n \div 10) \o <<Digits[(n % 10) + 1]>>

\* The name of a staged file in temp/: `${stamp}-${filename}`.
TempName(p) == ToDigits(p.stamp) \o <<"-">> \o FileNames[p.file]

\* s.includes(sub)
includes(s, sub) ==
  \E i \in 0..(Len(s) - Len(sub)) : SubSeq(s, i + 1, i + Len(sub)) = sub

\* The staged files a route may use for file f: those whose name contains the
\* filename and whose size is not zero.
MatchingTempFiles(f) == {p \in tempDir : includes(TempName(p), FileNames[f])}

\* The arrays of staged files that the search of completeJob and of the series
\* zips can build for the files fs: for each file in turn the first match in
\* the listing of fs.readdirSync, whose order Node does not specify, so any
\* match; a file without a match adds nothing.
RECURSIVE TempFileChoices(_)
TempFileChoices(fs) ==
  IF fs = <<>> THEN {<<>>}
  ELSE LET rest == TempFileChoices(Tail(fs))
           matching == MatchingTempFiles(Head(fs))
       IN IF matching = {} THEN rest
          ELSE {<<p>> \o r : p \in matching, r \in rest}

\* The values of maxConcurrentDownloads a client sends to POST /api/settings.
SettingValues == {1, 5}

\* POST /api/settings up to the await of updateSettings: the stored settings
\* take the value sent.
UpdateSettings(n) ==
  /\ counters.settings < counters.limit.settings
  /\ settingsData' = [settingsData EXCEPT !.maxConcurrentDownloads = n]
  /\ procs' = counters.proc :> NewProc("settings", 0, <<>>, <<>>) @@ procs
  /\ counters' = [counters EXCEPT !.proc = @ + 1, !.settings = @ + 1]
  /\ UNCHANGED <<pdfFiles, downloadJobs, completedDownloads, historyEntries, queue,
                 activeDownloads, cancelledJobs, tempDir, now, tasks, fetchLog>>

\* POST /api/settings after updateSettings: the history entry is written.
SettingsRoute(p) ==
  /\ procs[p].kind = "settings"
  /\ historyEntries' = AddHistory(historyEntries, "Settings updated", <<>>)
  /\ procs' = Drop(procs, p)
  /\ UNCHANGED <<pdfFiles, downloadJobs, completedDownloads, queue, activeDownloads,
                 cancelledJobs, settingsData, tempDir, now, tasks, fetchLog, counters>>

\* ------------------------------------------------------ create-series-zips
\* POST /api/downloads/create-series-zips up to the await of getPdfFiles: the
\* records are read as they are now; with no completed file the route answers
\* 400 and changes nothing.
StartSeriesZips ==
  LET completedFiles == {f \in Files : pdfFiles[f].status = "completed"}
  IN /\ counters.zips < counters.limit.zips
     /\ completedFiles # {}
     /\ procs' = counters.proc
                   :> NewProc("series zips", 0, <<>>, SeriesGroups(InIdOrder(completedFiles)))
                 @@ procs
     /\ counters' = [counters EXCEPT !.proc = @ + 1, !.zips = @ + 1]
     /\ UNCHANGED <<pdfFiles, downloadJobs, completedDownloads, historyEntries, queue,
                    activeDownloads, cancelledJobs, settingsData, tempDir, now, tasks, fetchLog>>

\* The arrays of staged files that can be collected for one series: one staged
\* file per file of the group that has a match, in the order of the group.
TempFilesForSeries(group) == TempFileChoices(group.files)

\* The groups still to be served, from the first one that has staged files.
RECURSIVE SkipEmpty(_)
SkipEmpty(groups) ==
  IF groups = <<>> THEN <<>>
  ELSE IF TempFilesForSeries(Head(groups)) # {<<>>} THEN groups
  ELSE SkipEmpty(Tail(groups))

\* The loop of the route between two awaits: the series without staged files
\* are passed over, createZip is called for the first series that has some, and
\* after the last series the history entry is written.
SeriesZipsRoute(p) ==
  LET r == procs[p]
      left == SkipEmpty(r.batches)
  IN /\ r.kind = "series zips" /\ r.idx = 0
     /\ IF left = <<>>
        THEN /\ historyEntries' = AddHistory(historyEntries, "Created series zip files", <<>>)
             /\ procs' = Drop(procs, p)
        ELSE /\ \E tempFiles \in TempFilesForSeries(Head(left)) :
                  procs' = [procs EXCEPT ![p].batches = left, ![p].idx = 1,
                                         ![p].files = tempFiles]
             /\ UNCHANGED historyEntries
     /\ UNCHANGED <<pdfFiles, downloadJobs, completedDownloads, queue, activeDownloads,
                    cancelledJobs, settingsData, tempDir, now, tasks, fetchLog, counters>>

\* createZip returns for a series: the ArchiveRecord of the series is created;
\* or it throws, and the route answers 500.
SeriesZipReturns(p, ok) ==
  LET r == procs[p]
  IN /\ r.kind = "series zips" /\ r.idx = 1
     /\ IF ok
        THEN /\ completedDownloads' =
                  Append(completedDownloads,
                         [job |-> 0, name |-> SeriesName(Head(r.batches).series),
                          files |-> Len(r.files)])
             /\ procs' = [procs EXCEPT ![p].batches = Tail(r.batches), ![p].idx = 0,
                                       ![p].files = <<>>]
        ELSE /\ procs' = Drop(procs, p)
             /\ UNCHANGED completedDownloads
     /\ UNCHANGED <<pdfFiles, downloadJobs, historyEntries, queue, activeDownloads,
                    cancelledJobs, settingsData, tempDir, now, tasks, fetchLog, counters>>

\* ------------------------------------------------------------ downloadFile
At(t, pc) == t \in DOMAIN tasks /\ tasks[t].pc = pc

Goto(t, pc) == tasks' = [tasks EXCEPT ![t].pc = pc]

SetFile(f, status, progress) ==
  pdfFiles' = [pdfFiles EXCEPT ![f] = [status |-> status, progress |-> progress]]

\* The staged path of an attempt: `${Date.now()}-${file.filename}` in temp/.
tempFilePath(ms, f) == [stamp |-> ms, file |-> f]

\* After the await of the "downloading" update, with ms the value that
\* Date.now() returns: the write stream is opened on the staged path (an empty
\* file, also when the path held a staged copy), the ActiveDownload is
\* registered and fetch is called.
OpenStream(t, ms) ==
  /\ At(t, "started")
  /\ tempDir' = tempDir \ {tempFilePath(ms, tasks[t].file)}
  /\ activeDownloads' = activeDownloads \cup {tasks[t].file}
  /\ tasks' = [tasks EXCEPT ![t].pc = "fetching", ![t].stamp = ms]
  /\ UNCHANGED <<pdfFiles, downloadJobs, completedDownloads, historyEntries, queue,
                 cancelledJobs, settingsData, now, procs, fetchLog, counters>>

\* The clock advances by a millisecond.
Tick ==
  /\ now < counters.limit.clock
  /\ now' = now + 1
  /\ UNCHANGED <<pdfFiles, downloadJobs, completedDownloads, historyEntries, queue,
                 activeDownloads, cancelledJobs, settingsData, tempDir, tasks, procs,
                 fetchLog, counters>>

\* The cancellation check of downloadFile, made when fetch has returned.
WasCancelled(jobId) == jobId \in cancelledJobs

\* fetch returns.  A rejection or a non-ok response goes to the catch block;
\* an ok response of a cancelled job is discarded and the staged path is
\* unlinked; otherwise the body is read.
FetchReturns(t, ok) ==
  /\ At(t, "fetching")
  /\ counters.returns < counters.limit.returns
  /\ counters' = [counters EXCEPT !.returns = @ + 1]
  /\ IF ~ok
     THEN SetFile(tasks[t].file, "failed", 0) /\ Goto(t, "catch") /\ UNCHANGED tempDir
     ELSE IF WasCancelled(tasks[t].jobId)
     THEN /\ tempDir' = tempDir \ {tempFilePath(tasks[t].stamp, tasks[t].file)}
          /\ SetFile(tasks[t].file, "ready", 0)
          /\ Goto(t, "discarded")
     ELSE Goto(t, "buffering") /\ UNCHANGED <<pdfFiles, tempDir>>
  /\ UNCHANGED <<downloadJobs, completedDownloads, historyEntries, queue,
                 activeDownloads, cancelledJobs, settingsData, now, procs, fetchLog>>

\* response.buffer() returns.  On success the buffer is written to the staged
\* file and the file's progress is set to 100 (its status is left as it is).
BufferReturns(t, ok) ==
  /\ At(t, "buffering")
  /\ IF ok
     THEN /\ tempDir' = tempDir \cup {tempFilePath(tasks[t].stamp, tasks[t].file)}
          /\ pdfFiles' = [pdfFiles EXCEPT ![tasks[t].file].progress = 100]
          /\ fetchLog' = [fetchLog EXCEPT ![tasks[t].jobId].succeeded = @ + 1]
          /\ Goto(t, "written")
     ELSE /\ SetFile(tasks[t].file, "failed", 0)
          /\ Goto(t, "catch")
          /\ UNCHANGED <<tempDir, now, fetchLog>>
  /\ UNCHANGED <<downloadJobs, completedDownloads, historyEntries, queue,
                 activeDownloads, cancelledJobs, settingsData, now, procs, counters>>

MarkCompleted(t) ==
  /\ At(t, "written")
  /\ SetFile(tasks[t].file, "completed", 100)
  /\ Goto(t, "completed")
  /\ UNCHANGED <<downloadJobs, completedDownloads, historyEntries, queue,
                 activeDownloads, cancelledJobs, settingsData, tempDir, now, procs, fetchLog, counters>>

\* const job = await storage.getDownloadJob(jobId)
ReadJob(t) ==
  /\ At(t, "completed")
  /\ tasks' = [tasks EXCEPT
                 ![t].pc = "read",
                 ![t].job = [downloadedFiles |-> downloadJobs[tasks[t].jobId].downloadedFiles,
                             totalFiles |-> downloadJobs[tasks[t].jobId].totalFiles]]
  /\ UNCHANGED <<pdfFiles, downloadJobs, completedDownloads, historyEntries, queue,
                 activeDownloads, cancelledJobs, settingsData, tempDir, now, procs, fetchLog, counters>>

\* The counter written by downloadFile, from the job record it read.
Incremented(job) == job.downloadedFiles + 1

\* await storage.updateDownloadJob(jobId, { downloadedFiles: job.downloadedFiles + 1 })
CountFile(t) ==
  /\ At(t, "read")
  /\ downloadJobs' = [downloadJobs EXCEPT
                        ![tasks[t].jobId].downloadedFiles = Incremented(tasks[t].job)]
  /\ Goto(t, "counted")
  /\ UNCHANGED <<pdfFiles, completedDownloads, historyEntries, queue, activeDownloads,
                 cancelledJobs, settingsData, tempDir, now, procs, fetchLog, counters>>

\* The completion test of downloadFile, on the job record it read.
AllDownloaded(job) == job.downloadedFiles + 1 >= job.totalFiles

\* downloadFile ending without a call of processQueue.
Finish_NoDrain(t) ==
  /\ Install([Downloader EXCEPT !.active = activeDownloads \ {tasks[t].file},
                                !.tasks = Drop(tasks, t)])
  /\ counters' = counters

\* The end of downloadFile on its success and failure paths: the ActiveDownload
\* is removed and processQueue runs.
Finish(t) ==
  LET d == processQueue([Downloader EXCEPT !.active = activeDownloads \ {tasks[t].file},
                                           !.tasks = Drop(tasks, t)])
  IN /\ Install(d)
     /\ counters' = [counters EXCEPT !.task = d.next]

\* After the counter update: either completeJob is entered, which sets the job
\* to "creating zip" whatever its status is, or downloadFile ends.
AfterCount(t) ==
  /\ At(t, "counted")
  /\ IF AllDownloaded(tasks[t].job)
     THEN /\ downloadJobs' = [downloadJobs EXCEPT ![tasks[t].jobId].status = "creating zip"]
          /\ Goto(t, "creating zip")
          /\ UNCHANGED <<pdfFiles, queue, activeDownloads, fetchLog, counters>>
     ELSE Finish(t) /\ UNCHANGED downloadJobs
  /\ UNCHANGED <<completedDownloads, historyEntries, cancelledJobs, settingsData, tempDir, now, procs>>

\* The catch block of downloadFile after its await.
AfterFailure(t) ==
  /\ At(t, "catch")
  /\ Finish(t)
  /\ UNCHANGED <<downloadJobs, completedDownloads, historyEntries, cancelledJobs, settingsData,
                 tempDir, now, procs>>

\* A cancellation path that returns without removing the ActiveDownload.
AfterDiscard_KeepActive(t) ==
  /\ At(t, "discarded")
  /\ tasks' = Drop(tasks, t)
  /\ UNCHANGED <<pdfFiles, downloadJobs, completedDownloads, historyEntries, queue,
                 activeDownloads, cancelledJobs, settingsData, tempDir, now, procs,
                 fetchLog, counters>>

\* The cancellation path of downloadFile after its await: the ActiveDownload is
\* removed and downloadFile returns; processQueue is not called.
AfterDiscard(t) ==
  /\ At(t, "discarded")
  /\ activeDownloads' = activeDownloads \ {tasks[t].file}
  /\ tasks' = Drop(tasks, t)
  /\ UNCHANGED <<pdfFiles, downloadJobs, completedDownloads, historyEntries, queue,
                 cancelledJobs, settingsData, tempDir, now, procs, fetchLog, counters>>

\* ------------------------------------------------------------- completeJob
\* const allFiles = await storage.getPdfFiles(): the records as they are now.
ListFiles(t) ==
  /\ At(t, "creating zip")
  /\ tasks' = [tasks EXCEPT
                 ![t].pc = "listed",
                 ![t].completed = {f \in Files : pdfFiles[f].status = "completed"}]
  /\ UNCHANGED <<pdfFiles, downloadJobs, completedDownloads, historyEntries, queue,
                 activeDownloads, cancelledJobs, settingsData, tempDir, now, procs, fetchLog, counters>>

\* The completed files of the job, as completeJob filters them.
CompletedFiles(t) ==
  InIdOrder(JobFiles(downloadJobs[tasks[t].jobId].name) \cap tasks[t].completed)

\* The arrays of staged files that can be collected for the zip: one staged
\* file per completed file of the job that has a match.
TempFiles(t) == TempFileChoices(CompletedFiles(t))

\* A catch block of completeJob that leaves the job record as it is.
FailJob_KeepStatus(jobId) == downloadJobs' = downloadJobs

\* The catch block of completeJob: the job is failed, with a completion time.
FailJob(jobId) ==
  downloadJobs' = [downloadJobs EXCEPT ![jobId].status = "failed",
                                       ![jobId].completedAt = TRUE]

\* The files are filtered and the staged copies collected; with none the catch
\* block marks the job failed, otherwise createZip is called.
CollectTemp(t) ==
  /\ At(t, "listed")
  /\ IF TempFiles(t) = {<<>>}
     THEN FailJob(tasks[t].jobId) /\ Goto(t, "no files")
     ELSE /\ \E tempFiles \in TempFiles(t) :
               tasks' = [tasks EXCEPT ![t].pc = "zipping", ![t].tempFiles = tempFiles]
          /\ UNCHANGED downloadJobs
  /\ UNCHANGED <<pdfFiles, completedDownloads, historyEntries, queue, activeDownloads,
                 cancelledJobs, settingsData, tempDir, now, procs, fetchLog, counters>>

\* zipper.createZip returns or throws.
ZipReturns(t, ok) ==
  /\ At(t, "zipping")
  /\ IF ok
     THEN /\ downloadJobs' = [downloadJobs EXCEPT ![tasks[t].jobId].status = "completed",
                                                  ![tasks[t].jobId].completedAt = TRUE]
          /\ Goto(t, "zipped")
     ELSE FailJob(tasks[t].jobId) /\ Goto(t, "zip failed")
  /\ UNCHANGED <<pdfFiles, completedDownloads, historyEntries, queue, activeDownloads,
                 cancelledJobs, settingsData, tempDir, now, procs, fetchLog, counters>>

\* await storage.createCompletedDownload(...)
RecordArchive(t) ==
  /\ At(t, "zipped")
  /\ completedDownloads' =
       Append(completedDownloads,
              [job |-> tasks[t].jobId, name |-> downloadJobs[tasks[t].jobId].name,
               files |-> Len(tasks[t].tempFiles)])
  /\ Goto(t, "recorded")
  /\ UNCHANGED <<pdfFiles, downloadJobs, historyEntries, queue, activeDownloads,
                 cancelledJobs, settingsData, tempDir, now, procs, fetchLog, counters>>

\* The history entry of completeJob: "Download completed" after the archive
\* record, "Download failed" with the job and the error message in the catch
\* block.
JobHistory(t) ==
  /\ At(t, "recorded") \/ At(t, "no files") \/ At(t, "zip failed")
  /\ historyEntries' =
       IF tasks[t].pc = "recorded"
       THEN AddHistory(historyEntries, "Download completed", <<tasks[t].jobId>>)
       ELSE AddHistory(historyEntries, "Download failed", <<tasks[t].jobId, tasks[t].pc>>)
  /\ Goto(t, "returning")
  /\ UNCHANGED <<pdfFiles, downloadJobs, completedDownloads, queue, activeDownloads,
                 cancelledJobs, settingsData, tempDir, now, procs, fetchLog, counters>>

\* completeJob has returned to downloadFile.
AfterComplete(t) ==
  /\ At(t, "returning")
  /\ Finish(t)
  /\ UNCHANGED <<downloadJobs, completedDownloads, historyEntries, cancelledJobs, settingsData,
                 tempDir, now, procs>>

\* --------------------------------------------------------------- behaviour
TaskIds == DOMAIN tasks

ProcIds == DOMAIN procs

Next ==
  \/ \E sel \in Selections, k \in ZipSizes : StartDownload(sel, k)
  \/ \E p \in ProcIds : DownloadRoute(p)
  \/ \E p \in ProcIds : BatchStep(p)
  \/ \E j \in DOMAIN downloadJobs : Retry(j)
  \/ \E p \in ProcIds : RetryRoute(p)
  \/ \E j \in DOMAIN downloadJobs : cancelDownload(j)
  \/ \E p \in ProcIds : CancelRoute(p)
  \/ \E t \in TaskIds : OpenStream(t, t)
  \/ \E t \in TaskIds, ok \in BOOLEAN : FetchReturns(t, ok)
  \/ \E t \in TaskIds, ok \in BOOLEAN : BufferReturns(t, ok)
  \/ \E t \in TaskIds : MarkCompleted(t)
  \/ \E t \in TaskIds : ReadJob(t)
  \/ \E t \in TaskIds : CountFile(t)
  \/ \E t \in TaskIds : AfterCount(t)
  \/ \E t \in TaskIds : AfterFailure(t)
  \/ \E t \in TaskIds : AfterDiscard(t)
  \/ \E t \in TaskIds : ListFiles(t)
  \/ \E t \in TaskIds : CollectTemp(t)
  \/ \E t \in TaskIds, ok \in BOOLEAN : ZipReturns(t, ok)
  \/ \E t \in TaskIds : RecordArchive(t)
  \/ \E t \in TaskIds : JobHistory(t)
  \/ \E t \in TaskIds : AfterComplete(t)

Spec == Init /\ [][Next]_vars

\* Two jobs of POST /api/downloads that together fill the queue, one of which
\* may be cancelled; no retry.
SelectionsDrain == {{1, 2, 3}, {4}}

ZipSizesDrain == {100}

InitDrain == Started(LimitsDrain)

NextDrain ==
  \/ \E sel \in SelectionsDrain, k \in ZipSizesDrain : StartDownload(sel, k)
  \/ \E p \in ProcIds : DownloadRoute(p)
  \/ \E p \in ProcIds : BatchStep(p)
  \/ \E j \in DOMAIN downloadJobs : cancelDownload(j)
  \/ \E p \in ProcIds : CancelRoute(p)
  \/ \E t \in TaskIds : OpenStream(t, t)
  \/ \E t \in TaskIds, ok \in BOOLEAN : FetchReturns(t, ok)
  \/ \E t \in TaskIds, ok \in BOOLEAN : BufferReturns(t, ok)
  \/ \E t \in TaskIds : MarkCompleted(t)
  \/ \E t \in TaskIds : ReadJob(t)
  \/ \E t \in TaskIds : CountFile(t)
  \/ \E t \in TaskIds : AfterCount(t)
  \/ \E t \in TaskIds : AfterFailure(t)
  \/ \E t \in TaskIds : AfterDiscard(t)
  \/ \E t \in TaskIds : ListFiles(t)
  \/ \E t \in TaskIds : CollectTemp(t)
  \/ \E t \in TaskIds, ok \in BOOLEAN : ZipReturns(t, ok)
  \/ \E t \in TaskIds : RecordArchive(t)
  \/ \E t \in TaskIds : JobHistory(t)
  \/ \E t \in TaskIds : AfterComplete(t)

SpecDrain == InitDrain /\ [][NextDrain]_vars

\* One POST /api/downloads for two files, split by pdfsPerZip; no cancellation
\* and no retry.
SelectionsSplit == {{1, 2}}

InitSplit == Started(LimitsSplit)

NextSplit ==
  \/ \E sel \in SelectionsSplit, k \in ZipSizes : StartDownload(sel, k)
  \/ \E p \in ProcIds : DownloadRoute(p)
  \/ \E p \in ProcIds : BatchStep(p)
  \/ \E t \in TaskIds : OpenStream(t, t)
  \/ \E t \in TaskIds, ok \in BOOLEAN : FetchReturns(t, ok)
  \/ \E t \in TaskIds, ok \in BOOLEAN : BufferReturns(t, ok)
  \/ \E t \in TaskIds : MarkCompleted(t)
  \/ \E t \in TaskIds : ReadJob(t)
  \/ \E t \in TaskIds : CountFile(t)
  \/ \E t \in TaskIds : AfterCount(t)
  \/ \E t \in TaskIds : AfterFailure(t)
  \/ \E t \in TaskIds : ListFiles(t)
  \/ \E t \in TaskIds : CollectTemp(t)
  \/ \E t \in TaskIds, ok \in BOOLEAN : ZipReturns(t, ok)
  \/ \E t \in TaskIds : RecordArchive(t)
  \/ \E t \in TaskIds : JobHistory(t)
  \/ \E t \in TaskIds : AfterComplete(t)

SpecSplit == InitSplit /\ [][NextSplit]_vars

\* The organized download of every file and the series zips; no cancellation
\* and no retry.
InitSeries == Started(LimitsSeries)

NextSeries ==
  \/ StartOrganized
  \/ \E p \in ProcIds : OrganizedRoute(p)
  \/ \E p \in ProcIds : BatchStep(p)
  \/ StartSeriesZips
  \/ \E p \in ProcIds : SeriesZipsRoute(p)
  \/ \E p \in ProcIds, ok \in BOOLEAN : SeriesZipReturns(p, ok)
  \/ \E t \in TaskIds : OpenStream(t, t)
  \/ \E t \in TaskIds, ok \in BOOLEAN : FetchReturns(t, ok)
  \/ \E t \in TaskIds, ok \in BOOLEAN : BufferReturns(t, ok)
  \/ \E t \in TaskIds : MarkCompleted(t)
  \/ \E t \in TaskIds : ReadJob(t)
  \/ \E t \in TaskIds : CountFile(t)
  \/ \E t \in TaskIds : AfterCount(t)
  \/ \E t \in TaskIds : AfterFailure(t)
  \/ \E t \in TaskIds : ListFiles(t)
  \/ \E t \in TaskIds : CollectTemp(t)
  \/ \E t \in TaskIds, ok \in BOOLEAN : ZipReturns(t, ok)
  \/ \E t \in TaskIds : RecordArchive(t)
  \/ \E t \in TaskIds : JobHistory(t)
  \/ \E t \in TaskIds : AfterComplete(t)

SpecSeries == InitSeries /\ [][NextSeries]_vars

\* One job that the client may cancel and then retries: the DELETE request, if
\* any, comes before the retry request.
SelectionsRetry == {{3}, {1, 2}}

CancelThenRetry(j) == counters.retries = 0 /\ cancelDownload(j)

InitRetry == Started(LimitsRetry)

NextRetry ==
  \/ \E sel \in SelectionsRetry, k \in ZipSizesDrain : StartDownload(sel, k)
  \/ \E p \in ProcIds : DownloadRoute(p)
  \/ \E p \in ProcIds : BatchStep(p)
  \/ \E j \in DOMAIN downloadJobs : Retry(j)
  \/ \E p \in ProcIds : RetryRoute(p)
  \/ \E j \in DOMAIN downloadJobs : CancelThenRetry(j)
  \/ \E p \in ProcIds : CancelRoute(p)
  \/ \E t \in TaskIds : OpenStream(t, t)
  \/ \E t \in TaskIds, ok \in BOOLEAN : FetchReturns(t, ok)
  \/ \E t \in TaskIds, ok \in BOOLEAN : BufferReturns(t, ok)
  \/ \E t \in TaskIds : MarkCompleted(t)
  \/ \E t \in TaskIds : ReadJob(t)
  \/ \E t \in TaskIds : CountFile(t)
  \/ \E t \in TaskIds : AfterCount(t)
  \/ \E t \in TaskIds : AfterFailure(t)
  \/ \E t \in TaskIds : AfterDiscard(t)
  \/ \E t \in TaskIds : ListFiles(t)
  \/ \E t \in TaskIds : CollectTemp(t)
  \/ \E t \in TaskIds, ok \in BOOLEAN : ZipReturns(t, ok)
  \/ \E t \in TaskIds : RecordArchive(t)
  \/ \E t \in TaskIds : JobHistory(t)
  \/ \E t \in TaskIds : AfterComplete(t)

SpecRetry == InitRetry /\ [][NextRetry]_vars

\* The organized download of every file and a retry of one of its jobs; no
\* cancellation.
InitSeriesRetry == Started(LimitsSeriesRetry)

NextSeriesRetry ==
  \/ StartOrganized
  \/ \E p \in ProcIds : OrganizedRoute(p)
  \/ \E p \in ProcIds : BatchStep(p)
  \/ \E j \in DOMAIN downloadJobs : Retry(j)
  \/ \E p \in ProcIds : RetryRoute(p)
  \/ \E t \in TaskIds : OpenStream(t, t)
  \/ \E t \in TaskIds, ok \in BOOLEAN : FetchReturns(t, ok)
  \/ \E t \in TaskIds, ok \in BOOLEAN : BufferReturns(t, ok)
  \/ \E t \in TaskIds : MarkCompleted(t)
  \/ \E t \in TaskIds : ReadJob(t)
  \/ \E t \in TaskIds : CountFile(t)
  \/ \E t \in TaskIds : AfterCount(t)
  \/ \E t \in TaskIds : AfterFailure(t)
  \/ \E t \in TaskIds : ListFiles(t)
  \/ \E t \in TaskIds : CollectTemp(t)
  \/ \E t \in TaskIds, ok \in BOOLEAN : ZipReturns(t, ok)
  \/ \E t \in TaskIds : RecordArchive(t)
  \/ \E t \in TaskIds : JobHistory(t)
  \/ \E t \in TaskIds : AfterComplete(t)

SpecSeriesRetry == InitSeriesRetry /\ [][NextSeriesRetry]_vars

\* Downloads of one or two files while the operator updates the settings; no
\* cancellation and no retry.
SelectionsSettings == {{1}, {2}, {1, 2}}

InitSettings == Started(LimitsSettings)

NextSettings ==
  \/ \E sel \in SelectionsSettings, k \in ZipSizesDrain : StartDownload(sel, k)
  \/ \E p \in ProcIds : DownloadRoute(p)
  \/ \E p \in ProcIds : BatchStep(p)
  \/ \E n \in SettingValues : UpdateSettings(n)
  \/ \E p \in ProcIds : SettingsRoute(p)
  \/ \E t \in TaskIds : OpenStream(t, t)
  \/ \E t \in TaskIds, ok \in BOOLEAN : FetchReturns(t, ok)
  \/ \E t \in TaskIds, ok \in BOOLEAN : BufferReturns(t, ok)
  \/ \E t \in TaskIds : MarkCompleted(t)
  \/ \E t \in TaskIds : ReadJob(t)
  \/ \E t \in TaskIds : CountFile(t)
  \/ \E t \in TaskIds : AfterCount(t)
  \/ \E t \in TaskIds : AfterFailure(t)
  \/ \E t \in TaskIds : ListFiles(t)
  \/ \E t \in TaskIds : CollectTemp(t)
  \/ \E t \in TaskIds, ok \in BOOLEAN : ZipReturns(t, ok)
  \/ \E t \in TaskIds : RecordArchive(t)
  \/ \E t \in TaskIds : JobHistory(t)
  \/ \E t \in TaskIds : AfterComplete(t)

SpecSettings == InitSettings /\ [][NextSettings]_vars

\* Two downloads of the same file while the clock may or may not advance
\* between two calls of Date.now(); no cancellation and no retry.  (In the other
\* specifications every call of Date.now() falls in a millisecond of its own:
\* the stamp of an attempt is the number of its downloadFile call.)
SelectionsStaged == {{1}}

InitStaged == Started(LimitsStaged)

NextStaged ==
  \/ \E sel \in SelectionsStaged, k \in ZipSizesDrain : StartDownload(sel, k)
  \/ \E p \in ProcIds : DownloadRoute(p)
  \/ \E p \in ProcIds : BatchStep(p)
  \/ Tick
  \/ \E t \in TaskIds : OpenStream(t, now)
  \/ \E t \in TaskIds, ok \in BOOLEAN : FetchReturns(t, ok)
  \/ \E t \in TaskIds, ok \in BOOLEAN : BufferReturns(t, ok)
  \/ \E t \in TaskIds : MarkCompleted(t)
  \/ \E t \in TaskIds : ReadJob(t)
  \/ \E t \in TaskIds : CountFile(t)
  \/ \E t \in TaskIds : AfterCount(t)
  \/ \E t \in TaskIds : AfterFailure(t)
  \/ \E t \in TaskIds : ListFiles(t)
  \/ \E t \in TaskIds : CollectTemp(t)
  \/ \E t \in TaskIds, ok \in BOOLEAN : ZipReturns(t, ok)
  \/ \E t \in TaskIds : RecordArchive(t)
  \/ \E t \in TaskIds : JobHistory(t)
  \/ \E t \in TaskIds : AfterComplete(t)

SpecStaged == InitStaged /\ [][NextStaged]_vars

\* Two downloads whose selections share a file; no cancellation and no retry.
SelectionsOverlap == {{1, 2}, {1}}

InitOverlap == Started(LimitsOverlap)

NextOverlap ==
  \/ \E sel \in SelectionsOverlap, k \in ZipSizesDrain : StartDownload(sel, k)
  \/ \E p \in ProcIds : DownloadRoute(p)
  \/ \E p \in ProcIds : BatchStep(p)
  \/ \E t \in TaskIds : OpenStream(t, t)
  \/ \E t \in TaskIds, ok \in BOOLEAN : FetchReturns(t, ok)
  \/ \E t \in TaskIds, ok \in BOOLEAN : BufferReturns(t, ok)
  \/ \E t \in TaskIds : MarkCompleted(t)
  \/ \E t \in TaskIds : ReadJob(t)
  \/ \E t \in TaskIds : CountFile(t)
  \/ \E t \in TaskIds : AfterCount(t)
  \/ \E t \in TaskIds : AfterFailure(t)
  \/ \E t \in TaskIds : ListFiles(t)
  \/ \E t \in TaskIds : CollectTemp(t)
  \/ \E t \in TaskIds, ok \in BOOLEAN : ZipReturns(t, ok)
  \/ \E t \in TaskIds : RecordArchive(t)
  \/ \E t \in TaskIds : JobHistory(t)
  \/ \E t \in TaskIds : AfterComplete(t)

SpecOverlap == InitOverlap /\ [][NextOverlap]_vars


\* ------------------------------------------------------------------ claims
JobIds == DOMAIN downloadJobs

\* No handler is suspended: nothing more happens until the next request.
Idle == DOMAIN tasks = {} /\ DOMAIN procs = {}

JobTasks(j) == {t \in DOMAIN tasks : tasks[t].jobId = j}

Archives(j) == {i \in DOMAIN completedDownloads : completedDownloads[i].job = j}

Downloading == {f \in Files : pdfFiles[f].status = "downloading"}

\* C1: at most maxConcurrentDownloads files have status "downloading" at any
\* time.
C1_AtMostCDownloading == Cardinality(Downloading) <= maxConcurrentDownloads

\* C2: a job's downloadedFiles never exceeds its totalFiles, re-submissions by
\* the retry route included.
C2_DownloadedAtMostTotal ==
  \A j \in JobIds : downloadJobs[j].downloadedFiles <= downloadJobs[j].totalFiles

\* C3: once every downloadFile call of a job has ended, the job's
\* downloadedFiles is the number of its fetches that succeeded (stated for
\* jobs that were never re-submitted, whose counter is never reset).
C3_CounterCountsSuccesses ==
  \A j \in JobIds :
    (counters.retries = 0 /\ JobTasks(j) = {})
      => downloadJobs[j].downloadedFiles = fetchLog[j].succeeded

\* C4: no step decreases a job's downloadedFiles.
C4_CounterNeverDecreases ==
  [][\A j \in JobIds :
       downloadJobs'[j].downloadedFiles >= downloadJobs[j].downloadedFiles]_vars

\* C5: once a job's status is completed, failed or cancelled, no step changes
\* it.
C5_TerminalAbsorbing ==
  [][\A j \in JobIds :
       downloadJobs[j].status \in Terminal
         => downloadJobs'[j].status = downloadJobs[j].status]_vars

\* C6: every job handed to downloadBatch reaches a terminal status: when no
\* handler is left running (every fetch and every createZip has returned), the
\* job is completed, failed or cancelled.
C6_IdleJobsTerminal ==
  \A j \in JobIds :
    (Idle /\ fetchLog[j].batches > 0) => downloadJobs[j].status \in Terminal

EntersCompleteJob(t) ==
  /\ t \in DOMAIN tasks /\ tasks[t].pc = "counted"
  /\ t \in DOMAIN tasks' /\ tasks'[t].pc = "creating zip"

\* C7: completeJob entered for a job that is already "creating zip" or
\* "completed" changes no job field, and a job becomes "creating zip" only from
\* "in progress".
C7_CompleteJobIdempotent ==
  [][/\ \A t \in DOMAIN tasks :
          (/\ EntersCompleteJob(t)
           /\ downloadJobs[tasks[t].jobId].status \in {"creating zip", "completed"})
            => downloadJobs' = downloadJobs
     /\ \A j \in JobIds :
          (/\ downloadJobs'[j].status = "creating zip"
           /\ downloadJobs[j].status # "creating zip")
            => downloadJobs[j].status = "in progress"]_vars

\* C8: at most one ArchiveRecord is ever created for a job.
C8_OneArchivePerJob == \A j \in JobIds : Cardinality(Archives(j)) <= 1

ZipThrew(j) ==
  BagIn([action |-> "Download failed", details |-> <<j, "zip failed">>], historyEntries)

\* C9: a job of n files that is never cancelled and never re-submitted, all of
\* whose n fetches succeeded and whose createZip did not throw, is, once no
\* handler is left running, completed with downloadedFiles = totalFiles = n and
\* exactly one ArchiveRecord.
C9_AllSucceededCompletes ==
  \A j \in JobIds :
    (/\ Idle
     /\ j \notin cancelledJobs
     /\ counters.retries = 0
     /\ fetchLog[j].succeeded = downloadJobs[j].totalFiles
     /\ ~ZipThrew(j))
      => /\ downloadJobs[j].status = "completed"
         /\ downloadJobs[j].downloadedFiles = downloadJobs[j].totalFiles
         /\ Cardinality(Archives(j)) = 1

\* C10: once cancelDownload(j) has run, no further fetch of job j is started:
\* queue entries of j, also those pushed after the cancel, are discarded when
\* they are dequeued.
C10_CancelledNeverStarts ==
  [][\A j \in cancelledJobs : fetchLog'[j].started = fetchLog[j].started]_vars

\* A queue entry of a cancelled job was dequeued and discarded.
C10_Witness == \E j \in cancelledJobs : fetchLog[j].discarded > 0

\* The files of job j whose downloadBatch call is under way or whose queue
\* entries are pending: those of the suspended call and those in the queue.
PendingFiles(j) ==
  {f \in Files :
     \/ \E p \in DOMAIN procs :
          /\ procs[p].kind = "batch" /\ procs[p].jobId = j
          /\ \E i \in DOMAIN procs[p].files : procs[p].files[i] = f
     \/ \E i \in DOMAIN queue : queue[i] = [jobId |-> j, file |-> f]}

\* C11: when cancelDownload runs for a job whose batch was submitted and none of
\* whose entries has been dequeued, the job is then cancelled with a completion
\* timestamp, every file of the job has status "ready" and the job has no
\* ArchiveRecord.
C11_CancelBeforeDequeue ==
  [][\A j \in JobIds :
       (/\ j \notin cancelledJobs /\ j \in cancelledJobs'
        /\ fetchLog[j].batches > 0
        /\ fetchLog[j].started = 0 /\ fetchLog[j].discarded = 0)
         => /\ downloadJobs'[j].status = "cancelled"
            /\ downloadJobs'[j].completedAt
            /\ \A f \in PendingFiles(j) : pdfFiles'[f].status = "ready"
            /\ \A i \in DOMAIN completedDownloads' : completedDownloads'[i].job # j]_vars

\* C12: when a step of the transfer (fetch, then response.buffer) of a file of
\* a cancelled job returns successfully, the result is discarded: the file is
\* set to "ready" and the call takes its cancellation path, which neither marks
\* the file completed nor counts it; this at whichever step the cancel arrived.
C12_InFlightResultDiscarded ==
  [][\A t \in DOMAIN tasks :
       (/\ tasks[t].jobId \in cancelledJobs
        /\ tasks[t].pc \in {"fetching", "buffering"}
        /\ t \in DOMAIN tasks'
        /\ tasks'[t].pc \notin {tasks[t].pc, "catch"})
         => /\ pdfFiles'[tasks[t].file].status = "ready"
            /\ tasks'[t].pc = "discarded"]_vars

\* C13: completeJob is never entered for a job on which cancelDownload has
\* already run.
C13_CancelledNeverArchived ==
  [][\A t \in DOMAIN tasks :
       EntersCompleteJob(t) => tasks[t].jobId \notin cancelledJobs]_vars

\* A fetch fails: fetch rejects or answers with a non-ok status, or reading the
\* body fails, and downloadFile goes to its catch block.
FetchFails(t) ==
  /\ tasks[t].pc \in {"fetching", "buffering"}
  /\ t \in DOMAIN tasks' /\ tasks'[t].pc = "catch"

\* The catch block of downloadFile ends.
CatchEnds(t) == tasks[t].pc = "catch" /\ t \notin DOMAIN tasks'

QueueEntries == {queue[i] : i \in DOMAIN queue}

\* C16: a fetch failure sets the failed file to "failed" with progress 0 and
\* changes no other file and no job (status and downloadedFiles stay as they
\* are); when the catch block ends the queue has been drained, so the next
\* queued entry of a job that is not cancelled has been admitted, and every
\* fetch started then is one of an entry that a downloadBatch had queued: the
\* failed file is not fetched again on its own.
C16_FailureOnlyFailsFile ==
  [][\A t \in DOMAIN tasks :
       /\ FetchFails(t)
            => /\ pdfFiles'[tasks[t].file] = [status |-> "failed", progress |-> 0]
               /\ \A f \in Files \ {tasks[t].file} : pdfFiles'[f] = pdfFiles[f]
               /\ downloadJobs' = downloadJobs
               /\ queue' = queue
               /\ DOMAIN tasks' = DOMAIN tasks
       /\ CatchEnds(t)
            => /\ downloadJobs' = downloadJobs
               /\ queue' = <<>> \/ Cardinality(activeDownloads') >= maxConcurrentDownloads
               /\ (/\ queue # <<>>
                   /\ Head(queue).jobId \notin cancelledJobs
                   /\ Cardinality(activeDownloads \ {tasks[t].file}) < maxConcurrentDownloads)
                    => \E n \in DOMAIN tasks' \ DOMAIN tasks :
                         /\ tasks'[n].jobId = Head(queue).jobId
                         /\ tasks'[n].file = Head(queue).file
                         /\ pdfFiles'[tasks'[n].file].status = "downloading"
               /\ \A n \in DOMAIN tasks' \ DOMAIN tasks :
                    [jobId |-> tasks'[n].jobId, file |-> tasks'[n].file] \in QueueEntries]_vars

\* A fetch of a job in progress has failed while an entry of a job that is not
\* cancelled waits in the queue: the catch block is about to admit it.
C16_Witness ==
  \E t \in DOMAIN tasks :
    /\ tasks[t].pc = "catch"
    /\ pdfFiles[tasks[t].file].status = "failed"
    /\ downloadJobs[tasks[t].jobId].status = "in progress"
    /\ queue # <<>> /\ Head(queue).jobId \notin cancelledJobs

LegalFileMoves ==
  {<<"ready", "queued">>, <<"queued", "downloading">>, <<"downloading", "completed">>,
   <<"downloading", "failed">>, <<"downloading", "ready">>}

\* C17: every change of a file's status is ready->queued, queued->downloading,
\* downloading->completed, downloading->failed or downloading->ready, and a
\* fetch is started only for a file whose status is "queued".
C17_LegalFileMoves ==
  [][/\ \A f \in Files :
          pdfFiles'[f].status # pdfFiles[f].status
            => <<pdfFiles[f].status, pdfFiles'[f].status>> \in LegalFileMoves
     /\ \A n \in DOMAIN tasks' \ DOMAIN tasks :
          pdfFiles[tasks'[n].file].status = "queued"]_vars

\* The downloadFile call t takes a step.
Moves(t) == t \notin DOMAIN tasks' \/ tasks'[t] # tasks[t]

\* completeJob fails: no staged file was found, or createZip threw.
ArchivingFails(t) ==
  /\ tasks[t].pc \in {"listed", "zipping"}
  /\ t \in DOMAIN tasks' /\ tasks'[t].pc \in {"no files", "zip failed"}

FailureEntries(h, j) ==
  CopiesIn([action |-> "Download failed", details |-> <<j, "no files">>], h)
  + CopiesIn([action |-> "Download failed", details |-> <<j, "zip failed">>], h)

\* C18: when completeJob finds no staged file or createZip throws, the job is
\* set to "failed" with a completion timestamp, then exactly one failure history
\* entry is appended, no ArchiveRecord is created, and the call returns without
\* entering completeJob again; a job that is neither re-submitted nor cancelled
\* is, once no handler is left running, failed with one failure entry and no
\* ArchiveRecord.
C18_ArchivingFailureFailsJob ==
  [][/\ \A t \in DOMAIN tasks :
          /\ ArchivingFails(t)
               => /\ downloadJobs'[tasks[t].jobId].status = "failed"
                  /\ downloadJobs'[tasks[t].jobId].completedAt
                  /\ completedDownloads' = completedDownloads
                  /\ historyEntries' = historyEntries
          /\ (tasks[t].pc \in {"no files", "zip failed"} /\ Moves(t))
               => /\ t \in DOMAIN tasks' /\ tasks'[t].pc = "returning"
                  /\ FailureEntries(historyEntries', tasks[t].jobId)
                       = FailureEntries(historyEntries, tasks[t].jobId) + 1
                  /\ BagCardinality(historyEntries') = BagCardinality(historyEntries) + 1
                  /\ completedDownloads' = completedDownloads
                  /\ downloadJobs' = downloadJobs
          /\ (tasks[t].pc = "returning" /\ Moves(t))
               => /\ t \notin DOMAIN tasks'
                  /\ completedDownloads' = completedDownloads
                  /\ historyEntries' = historyEntries
                  /\ downloadJobs' = downloadJobs
     /\ \A j \in DOMAIN downloadJobs' :
          (/\ DOMAIN tasks' = {} /\ DOMAIN procs' = {}
           /\ counters'.retries = 0 /\ counters'.cancels = 0
           /\ FailureEntries(historyEntries', j) > 0)
            => /\ downloadJobs'[j].status = "failed"
               /\ downloadJobs'[j].completedAt
               /\ FailureEntries(historyEntries', j) = 1
               /\ \A i \in DOMAIN completedDownloads' : completedDownloads'[i].job # j]_vars

\* Archiving has failed for a job, which is failed with one failure entry, and
\* no handler is left running.
C18_Witness ==
  \E j \in JobIds :
    /\ Idle
    /\ FailureEntries(historyEntries, j) = 1
    /\ downloadJobs[j].status = "failed"

RECURSIVE Flat(_)
Flat(bs) == IF bs = <<>> THEN <<>> ELSE Head(bs) \o Flat(Tail(bs))

\* C20: the selected files are split in order into consecutive batches of at
\* most pdfsPerZip files, each batch gets one job whose totalFiles is the batch
\* length, and every ArchiveRecord of such a job counts at most pdfsPerZip PDFs.
C20_ArchiveAtMostPerZip ==
  /\ \A sel \in Selections \cup SelectionsSplit, k \in ZipSizes :
       LET fs == InIdOrder(sel)
           bs == Batches(fs, k)
       IN /\ Flat(bs) = fs
          /\ \A i \in DOMAIN bs : Len(bs[i]) >= 1 /\ Len(bs[i]) <= k
  /\ \A p \in DOMAIN procs :
       procs[p].kind = "download"
         => downloadJobs[procs[p].jobId].totalFiles = Len(Head(procs[p].batches))
  /\ \A j \in JobIds :
       fetchLog[j].pdfsPerZip > 0 => downloadJobs[j].totalFiles <= fetchLog[j].pdfsPerZip
  /\ \A i \in DOMAIN completedDownloads :
       LET a == completedDownloads[i]
       IN (a.job \in JobIds /\ fetchLog[a.job].pdfsPerZip > 0)
            => a.files <= fetchLog[a.job].pdfsPerZip

\* The key a filename must get: its three leading characters when they are all
\* digits, the default key otherwise.
ThreeDigitsOrDefault(s) ==
  IF Len(s) >= 3 /\ \A i \in 1..3 : \E d \in DOMAIN Digits : Digits[d] = s[i]
  THEN <<s[1], s[2], s[3]>>
  ELSE <<"0", "0", "0">>

\* The files handed to the downloader under job j that are still in the
\* system: in a suspended downloadBatch, in the queue or being downloaded.
FilesUnder(j) ==
  PendingFiles(j) \cup {tasks[t].file : t \in JobTasks(j)}

C14_PendingEntriesServed ==
  Idle => \A i \in DOMAIN queue : queue[i].jobId \in cancelledJobs

\* The entries whose fetches a step starts, in the order in which it starts them.
StartedNow ==
  [i \in 1..(counters'.task - counters.task) |->
     [jobId |-> tasks'[counters.task + i - 1].jobId,
      file |-> tasks'[counters.task + i - 1].file]]

\* The queue as a step may find it: as it is, or with the entry that the step
\* itself pushes.
QueueOrPushed ==
  {queue} \cup {Append(queue, [jobId |-> j, file |-> f]) : j \in JobIds, f \in Files}

\* C15: fetches are started in the order in which their entries were queued,
\* across all jobs: a step that starts fetches takes a prefix of the queue,
\* starts the entries of that prefix that belong to no cancelled job, in queue
\* order, marking each file "downloading", and leaves the rest of the queue in
\* place; the only other change of the queue is the filter of cancelDownload.
C15_FifoAcrossJobs ==
  [][\/ cancelledJobs' # cancelledJobs /\ counters'.task = counters.task
     \/ \E q \in QueueOrPushed :
          \E n \in 0..Len(q) :
            /\ queue' = SubSeq(q, n + 1, Len(q))
            /\ StartedNow = SelectSeq(SubSeq(q, 1, n),
                                      LAMBDA e : e.jobId \notin cancelledJobs)
            /\ \A i \in DOMAIN StartedNow :
                 pdfFiles'[StartedNow[i].file].status = "downloading"]_vars

\* Entries of two jobs were interleaved in the queue and have been started: a
\* fetch of one job was started between two fetches of the other.
C15_Witness ==
  \E t1, t2, t3 \in DOMAIN tasks :
    /\ t1 < t2 /\ t2 < t3
    /\ tasks[t1].jobId = tasks[t3].jobId
    /\ tasks[t2].jobId # tasks[t1].jobId

BatchProcs(j) == {p \in DOMAIN procs : procs[p].kind = "batch" /\ procs[p].jobId = j}

\* The files of the suspended downloadBatch calls of job j that are not pushed
\* yet (the file marked "queued" before the await included).
Unpushed(j) ==
  {<<p, i>> \in BatchProcs(j) \X (1..Cardinality(Files)) :
     i <= Len(procs[p].files) /\ i >= procs[p].idx}

Queued(j) == {i \in DOMAIN queue : queue[i].jobId = j}

\* The download entry a suspended downloadBatch call pushes next.
NextPush(r) == [jobId |-> r.jobId, file |-> r.files[r.idx]]

\* C21: downloadBatch may run while other downloadBatch calls and the queue
\* drain are under way: the call sets its job to "in progress"; each of its
\* steps marks the next file "queued" and appends the entry of the file marked
\* before, and only that entry; so for a job that is not cancelled every
\* submitted file is, exactly once, still to be pushed, in the queue, or
\* started.
C21_BatchAppendsEachFileOnce ==
  [][/\ \A p \in DOMAIN procs' \ DOMAIN procs :
          procs'[p].kind = "batch"
            => downloadJobs'[procs'[p].jobId].status = "in progress"
     /\ \A p \in DOMAIN procs :
          (procs[p].kind = "batch" /\ (p \notin DOMAIN procs' \/ procs'[p] # procs[p]))
            => LET r == procs[p]
                   pushed == IF r.idx = 0 THEN queue ELSE Append(queue, NextPush(r))
               IN IF r.idx < Len(r.files)
                  THEN /\ queue' = pushed
                       /\ pdfFiles'[r.files[r.idx + 1]].status = "queued"
                       /\ procs' = [procs EXCEPT ![p].idx = r.idx + 1]
                  ELSE /\ p \notin DOMAIN procs'
                       /\ \E n \in 0..Len(pushed) : queue' = SubSeq(pushed, n + 1, Len(pushed))
     /\ \A j \in DOMAIN downloadJobs' :
          (j \notin cancelledJobs' /\ fetchLog'[j].batches = 1)
            => /\ Cardinality(Unpushed(j))' + Cardinality(Queued(j))' + fetchLog'[j].started
                    = downloadJobs'[j].totalFiles
               /\ \A i, k \in Queued(j)' : queue'[i].file = queue'[k].file => i = k]_vars

\* A downloadBatch call is suspended between two pushes, with an entry of its
\* job in the queue, while a fetch started for another job is running.
C21_Witness ==
  \E p \in DOMAIN procs :
    /\ procs[p].kind = "batch" /\ procs[p].idx >= 2
    /\ Queued(procs[p].jobId) # {}
    /\ \E t \in DOMAIN tasks : tasks[t].jobId # procs[p].jobId

\* C22: a job's completedAt is set only while its status is completed, failed
\* or cancelled, also after the job was re-submitted or retried.
C22_CompletedAtOnlyTerminal ==
  \A j \in JobIds : downloadJobs[j].completedAt => downloadJobs[j].status \in Terminal

\* The retry route has called downloadBatch for job j.
Restarted(j) ==
  BagIn([action |-> "Download restarted", details |-> <<j>>], historyEntries)

\* C23: after a retry of a job, whatever its status was (failed, completed or
\* cancelled), every re-submitted file is fetched again, provided every fetch
\* resolves: once every fetch has resolved and every handler has ended, at
\* least as many fetches of the job were started as files were re-submitted.
C23_RetriedFilesFetched ==
  \A j \in JobIds :
    (Idle /\ Restarted(j))
      => fetchLog[j].started >= Cardinality(RetryFiles(downloadJobs[j].name))

\* The files that belong to a job as its name encodes them: those of the
\* series of a series name, those whose number lies in the range of a range
\* name.
FilesOfName(name) ==
  IF name.series
  THEN {f \in Files : SeriesKey(FileNames[f]) = name.first}
  ELSE {f \in Files :
          /\ FirstDigits(FileNames[f]) # <<>>
          /\ parseInt(name.first) <= parseInt(FirstDigits(FileNames[f]))
          /\ parseInt(FirstDigits(FileNames[f])) <= parseInt(name.last)}

\* C24: the retry route hands downloadBatch exactly the files that belong to
\* the job as its name encodes them: for a range name the files whose number
\* lies in start..end, for a series name the files of that series.
C24_RetrySelectsJobFiles ==
  [][\A p \in DOMAIN procs :
       (/\ procs[p].kind = "retry" /\ p \notin DOMAIN procs'
        /\ (downloadJobs[procs[p].jobId].name.series
              \/ RangeMatch(downloadJobs[procs[p].jobId].name)))
         => \E b \in DOMAIN procs' \ DOMAIN procs :
              /\ procs'[b].kind = "batch" /\ procs'[b].jobId = procs[p].jobId
              /\ procs'[b].files
                   = InIdOrder(FilesOfName(downloadJobs[procs[p].jobId].name))]_vars

\* A step in which processQueue runs: a downloadBatch call ends, or a
\* downloadFile call ends on its success or failure path.
RunsProcessQueue ==
  \/ \E p \in DOMAIN procs : procs[p].kind = "batch" /\ p \notin DOMAIN procs'
  \/ \E t \in DOMAIN tasks : tasks[t].pc # "discarded" /\ t \notin DOMAIN tasks'

\* C25: admission works with the stored maxConcurrentDownloads setting n: a
\* fetch is started only while fewer than n downloads are registered active,
\* and processQueue stops only when the queue is empty or n are active.
C25_CapacityIsTheSetting ==
  [][/\ counters'.task > counters.task
          => Cardinality(activeDownloads') < settingsData.maxConcurrentDownloads
     /\ RunsProcessQueue
          => \/ queue' = <<>>
             \/ Cardinality(activeDownloads') >= settingsData.maxConcurrentDownloads]_vars

\* The write stream of the attempt is open: its buffer is still to be written.
StreamOpen(t) == tasks[t].pc \in {"fetching", "buffering"}

\* C26: no two fetch attempts write to the same staged path: two attempts whose
\* write streams are open have different paths, also when they are attempts
\* for the same filename started at the same clock value.
C26_StagedPathsDistinct ==
  \A t1, t2 \in DOMAIN tasks :
    (t1 # t2 /\ StreamOpen(t1) /\ StreamOpen(t2))
      => tempFilePath(tasks[t1].stamp, tasks[t1].file)
           # tempFilePath(tasks[t2].stamp, tasks[t2].file)

\* The staged copies of file f itself that are not empty.
OwnCopies(f) == {p \in tempDir : p.file = f}

\* For each of the files fs that has a non-empty staged copy, the most recent
\* one.
RECURSIVE MostRecentCopies(_)
MostRecentCopies(fs) ==
  IF fs = <<>> THEN <<>>
  ELSE LET own == OwnCopies(Head(fs))
       IN IF own = {} THEN MostRecentCopies(Tail(fs))
          ELSE <<CHOOSE p \in own : \A q \in own : q.stamp <= p.stamp>>
                 \o MostRecentCopies(Tail(fs))

\* C27: the staged files that completeJob collects for the zip are, for each
\* completed file of the job that has a non-empty staged copy, the most recent
\* such copy of that same file; a file without one is skipped.
C27_MostRecentOwnCopy ==
  [][\A t \in DOMAIN tasks :
       (tasks[t].pc = "listed" /\ t \in DOMAIN tasks' /\ tasks'[t].pc = "zipping")
         => tasks'[t].tempFiles = MostRecentCopies(CompletedFiles(t))]_vars

\* The files that have an attempt in flight which has registered its
\* ActiveDownload.
InFlight == {tasks[t].file : t \in {u \in DOMAIN tasks : tasks[u].pc # "started"}}

C29_SeriesJobFilesAreSubmitted ==
  \A j \in JobIds :
    (downloadJobs[j].name.series /\ fetchLog[j].batches > 0)
      => JobFiles(downloadJobs[j].name) = fetchLog[j].submitted

\* The files whose staged copies completeJob has put into the zip of its job.
Archived(t) == {tasks[t].tempFiles[i].file : i \in DOMAIN tasks[t].tempFiles}

\* C30: the files archived for a job were submitted under that job: a file
\* that was only submitted under another job is not in this job's archive.
C30_ArchivedWereSubmitted ==
  \A t \in DOMAIN tasks :
    tasks[t].pc \in {"zipped", "recorded"}
      => Archived(t) \subseteq fetchLog[tasks[t].jobId].submitted

\* C32: whenever a job's status is "completed", an ArchiveRecord of that job
\* exists.
C32_CompletedHasArchive ==
  \A j \in JobIds : downloadJobs[j].status = "completed" => Archives(j) # {}

\* C33: a file's progress is 100 exactly when its status is "completed", and 0
\* in every other status.
C33_ProgressIffCompleted ==
  \A f \in Files :
    /\ pdfFiles[f].progress \in {0, 100}
    /\ pdfFiles[f].progress = 100 <=> pdfFiles[f].status = "completed"

\* C31: when a job reaches "completed", its archive holds a staged copy of
\* every file submitted under it, also when one of its files has meanwhile been
\* submitted under another job and is queued or downloading again.
C31_ArchiveHoldsEverySubmitted ==
  \A t \in DOMAIN tasks :
    (/\ tasks[t].pc \in {"zipped", "recorded"}
     /\ downloadJobs[tasks[t].jobId].status = "completed")
      => fetchLog[tasks[t].jobId].submitted \subseteq Archived(t)

====
